---- MODULE Spec2Model ----
(***************************************************************************)
(* Extension-field arithmetic gadgets of the circuit builder               *)
(* (src/src/gadgets/arithmetic_extension.rs) over a degree-D binomial      *)
(* extension BaseField[x]/(x^D - W)                                        *)
(* (src/field/src/goldilocks_extensions.rs).                               *)
(*                                                                         *)
(* The builder is a record (gate list, copy constraints, generator list,   *)
(* virtual-target counter); every builder method is an operator from a     *)
(* builder to the new builder and the returned target.  A circuit is then  *)
(* run by the witness engine one generator at a time and its constraints   *)
(* are evaluated on the resulting witness.                                 *)
(***************************************************************************)
EXTENDS Integers, Sequences, FiniteSets, TLC

VARIABLES
    builder,    \* CircuitBuilder: gates, copy constraints, generators, virtual targets
    calls,      \* log of the gadget calls made on the builder, in order
    powers,     \* the caller's PowersTarget {base, current}, <<>> before powers()
    phase,      \* "build" -> "witness" (prove started) -> "done" (constraints evaluated)
    witness,    \* PartialWitness: assigned targets -> base-field values
    ran,        \* indices of the quotient generators the engine has run, in order
    invZero     \* what host inversion yields on zero; <<>> until first needed

vars == <<builder, calls, powers, phase, witness, ran, invZero>>

(***************************************************************************)
(* Base field and extension algebra (host side)                            *)
(***************************************************************************)

\* Order of the base prime field; the model takes the smallest prime for
\* which W = 7 is a quadratic non-residue.
Order == 5

\* Extension degree.
D == 2

\* The non-residue: x^D - W is irreducible over the base field.
W == 7

F == 0 .. (Order - 1)

F_ZERO == 0

F_ONE == 1

F_NEG_ONE == Order - 1

FAdd(a, b) == (a + b) % Order

FMul(a, b) == (a * b) % Order

RECURSIVE FExp(_, _)
FExp(a, n) == IF n = 0 THEN 1 ELSE FMul(a, FExp(a, n - 1))

\* Base-field inverse by Fermat's little theorem.
FInverse(a) == FExp(a, Order - 2)

\* DTH_ROOT = W^((ORDER - 1)/D)
DTH_ROOT == FExp(W % Order, (Order - 1) \div D)

\* The extension elements: length-D coefficient vectors.
Ext == [1 .. D -> F]

ZERO == [i \in 1 .. D |-> 0]

ONE == [i \in 1 .. D |-> IF i = 1 THEN 1 ELSE 0]

\* const.into(): a base-field element as a degree-0 extension element.
FromBase(c) == [i \in 1 .. D |-> IF i = 1 THEN c ELSE 0]

is_one(x) == x = ONE

ExtAdd(a, b) == [i \in 1 .. D |-> FAdd(a[i], b[i])]

RECURSIVE SumTo(_, _)
SumTo(f, n) == IF n = 0 THEN 0 ELSE f[n] + SumTo(f, n - 1)

\* Schoolbook convolution with wraparound: the product a[i]*b[j] goes to
\* coefficient i+j when i+j < D and, multiplied by W, to i+j-D otherwise
\* (coefficients are numbered from 0, sequences from 1).
ExtMul(a, b) ==
    [k \in 1 .. D |->
        SumTo([n \in 1 .. D * D |->
                  LET i == (n - 1) \div D
                      j == (n - 1) % D
                  IN  IF i + j = k - 1 THEN a[i + 1] * b[j + 1]
                      ELSE IF i + j = k - 1 + D THEN W * a[i + 1] * b[j + 1]
                      ELSE 0],
              D * D) % Order]

ExtScalarMul(c, a) == [i \in 1 .. D |-> FMul(c, a[i])]

\* k-fold Frobenius: coefficient i is multiplied by (DTH_ROOT^k)^i.
ExtRepeatedFrobenius(a, k) ==
    [i \in 1 .. D |-> FMul(a[i], FExp(FExp(DTH_ROOT, k % D), i - 1))]

ExtFrobenius(a) == ExtRepeatedFrobenius(a, 1)

RECURSIVE ExtFrobeniusProduct(_, _)
\* frobenius^1(a) * ... * frobenius^n(a)
ExtFrobeniusProduct(a, n) ==
    IF n = 0 THEN ONE
    ELSE ExtMul(ExtRepeatedFrobenius(a, n), ExtFrobeniusProduct(a, n - 1))

\* Inverse through the norm: a^(r-1) is the product of the non-trivial
\* Frobenius images, a^r = a^(r-1) * a lies in the base field, and
\* a^-1 = a^(r-1) * (a^r)^-1.  On zero the host yields iz.
ExtInverse(a, iz) ==
    IF a = ZERO THEN iz
    ELSE LET a_pow_r_minus_1 == ExtFrobeniusProduct(a, D - 1)
             a_pow_r == ExtMul(a_pow_r_minus_1, a)
         IN  ExtScalarMul(FInverse(a_pow_r[1]), a_pow_r_minus_1)

\* Host division num / dem = num * dem^-1.
ExtDiv(num, dem, iz) == ExtMul(num, ExtInverse(dem, iz))

RECURSIVE ExtExp(_, _)
ExtExp(a, n) == IF n = 0 THEN ONE ELSE ExtMul(a, ExtExp(a, n - 1))

RECURSIVE ExtProduct(_)
\* Host product of a sequence of extension elements.
ExtProduct(vs) ==
    IF vs = <<>> THEN ONE ELSE ExtMul(vs[1], ExtProduct(Tail(vs)))

(***************************************************************************)
(* Targets                                                                 *)
(***************************************************************************)

\* A base target is <<kind, i, j>>: a constant wire <<"const", c, 0>> (one per
\* value c), a virtual target <<"virt", n, 0>> or a gate wire <<"wire", gate,
\* input>>.  An ExtensionTarget is a sequence of D base targets.
ConstantTarget(c) == <<"const", c, 0>>

VirtualTarget(n) == <<"virt", n, 0>>

WireTarget(gate, input) == <<"wire", gate, input>>

\* ExtensionTarget::from_range(gate, range), the range given by its start.
from_range(gate, start) == [i \in 1 .. D |-> WireTarget(gate, start + i - 1)]

to_target_array(et) == et

\* Option values: None is <<>>, Some(x) is <<x>>.
None == <<>>

Some(x) == <<x>>

\* The wire groups of an ArithmeticExtensionGate (start of each D-wide range).
wires_first_multiplicand_0 == 0

wires_first_multiplicand_1 == D

wires_first_addend == 2 * D

wires_second_multiplicand_0 == 3 * D

wires_second_multiplicand_1 == 4 * D

wires_second_addend == 5 * D

wires_first_output == 6 * D

wires_second_output == 7 * D

(***************************************************************************)
(* The builder and its gadget layer                                        *)
(***************************************************************************)

\* CircuitBuilder::new: no gate, no copy constraint, no generator, no target.
\* A gate is [consts |-> <<const_0, const_1>>, ins |-> the six operands routed
\* to its input wire groups, in wire order].
NewBuilder ==
    [gates |-> <<>>, copy_constraints |-> <<>>, generators |-> <<>>,
     frobenius |-> <<>>, virtual_target_index |-> 0]

num_gates(b) == Len(b.gates)

add_virtual_extension_target(b) ==
    [b |-> [b EXCEPT !.virtual_target_index = @ + D],
     t |-> [i \in 1 .. D |-> VirtualTarget(b.virtual_target_index + i - 1)]]

\* constant_extension(c): the constant wires of the D coefficients; the same
\* constant always yields the same target and no gate is allocated.
constant_extension(c) == [i \in 1 .. D |-> ConstantTarget(c[i])]

zero_extension == constant_extension(ZERO)

one_extension == constant_extension(ONE)

\* Some(value) when every one of the D wires is a constant wire.
target_as_constant_ext(t) ==
    IF \A i \in 1 .. D : t[i][1] = "const"
    THEN Some([i \in 1 .. D |-> t[i][2]])
    ELSE None

\* assert_equal_extension: a copy constraint, no value is generated.
assert_equal_extension(b, x, y) ==
    [b EXCEPT !.copy_constraints = Append(@, <<x, y>>)]

add_generator(b, g) == [b EXCEPT !.generators = Append(@, g)]

\* add_gate, then route_extension of the six operands to the gate's input
\* wire groups; returns the two output wire groups.
double_arithmetic_extension(b, const_0, const_1, first_multiplicand_0, first_multiplicand_1, first_addend, second_multiplicand_0, second_multiplicand_1, second_addend) ==
    LET gate == num_gates(b)
    IN  [b |-> [b EXCEPT !.gates =
                   Append(@, [consts |-> <<const_0, const_1>>,
                              ins |-> <<first_multiplicand_0, first_multiplicand_1,
                                        first_addend, second_multiplicand_0,
                                        second_multiplicand_1, second_addend>>])],
         t0 |-> from_range(gate, wires_first_output),
         t1 |-> from_range(gate, wires_second_output)]

\* The special cases with the identity elimination returning the constant
\* multiplicand instead of the other one.
arithmetic_extension_special_cases_same_operand(const_0, const_1, multiplicand_0, multiplicand_1, addend) ==
    LET zero == zero_extension
        mul_0_const == target_as_constant_ext(multiplicand_0)
        mul_1_const == target_as_constant_ext(multiplicand_1)
        addend_const == target_as_constant_ext(addend)
        first_term_zero ==
            const_0 = F_ZERO \/ multiplicand_0 = zero \/ multiplicand_1 = zero
        second_term_zero == const_1 = F_ZERO \/ addend = zero
        first_term_const ==
            IF first_term_zero THEN Some(ZERO)
            ELSE IF mul_0_const # None /\ mul_1_const # None
                 THEN Some(ExtMul(ExtMul(mul_0_const[1], mul_1_const[1]), FromBase(const_0)))
                 ELSE None
        second_term_const ==
            IF second_term_zero THEN Some(ZERO)
            ELSE IF addend_const # None
                 THEN Some(ExtMul(addend_const[1], FromBase(const_1)))
                 ELSE None
    IN  IF first_term_const # None /\ second_term_const # None
        THEN Some(constant_extension(ExtAdd(first_term_const[1], second_term_const[1])))
        ELSE IF first_term_zero /\ const_1 = F_ONE
        THEN Some(addend)
        ELSE IF second_term_zero /\ mul_0_const # None
                /\ is_one(ExtMul(mul_0_const[1], FromBase(const_0)))
        THEN Some(multiplicand_0)
        ELSE IF second_term_zero /\ mul_1_const # None
                /\ is_one(ExtMul(mul_1_const[1], FromBase(const_0)))
        THEN Some(multiplicand_1)
        ELSE None

\* Checks for special cases where the value of
\* const_0 * multiplicand_0 * multiplicand_1 + const_1 * addend
\* can be determined without adding a gate.
arithmetic_extension_special_cases(const_0, const_1, multiplicand_0, multiplicand_1, addend) ==
    LET zero == zero_extension
        mul_0_const == target_as_constant_ext(multiplicand_0)
        mul_1_const == target_as_constant_ext(multiplicand_1)
        addend_const == target_as_constant_ext(addend)
        first_term_zero ==
            const_0 = F_ZERO \/ multiplicand_0 = zero \/ multiplicand_1 = zero
        second_term_zero == const_1 = F_ZERO \/ addend = zero
        first_term_const ==
            IF first_term_zero THEN Some(ZERO)
            ELSE IF mul_0_const # None /\ mul_1_const # None
                 THEN Some(ExtMul(ExtMul(mul_0_const[1], mul_1_const[1]), FromBase(const_0)))
                 ELSE None
        second_term_const ==
            IF second_term_zero THEN Some(ZERO)
            ELSE IF addend_const # None
                 THEN Some(ExtMul(addend_const[1], FromBase(const_1)))
                 ELSE None
    IN  IF first_term_const # None /\ second_term_const # None
        THEN Some(constant_extension(ExtAdd(first_term_const[1], second_term_const[1])))
        ELSE IF first_term_zero /\ const_1 = F_ONE
        THEN Some(addend)
        ELSE IF second_term_zero /\ mul_0_const # None
                /\ is_one(ExtMul(mul_0_const[1], FromBase(const_0)))
        THEN Some(multiplicand_1)
        ELSE IF second_term_zero /\ mul_1_const # None
                /\ is_one(ExtMul(mul_1_const[1], FromBase(const_0)))
        THEN Some(multiplicand_0)
        ELSE None

\* arithmetic_extension taking the pass-through of the addend for any const_1.
arithmetic_extension_addend_any_scale(b, const_0, const_1, multiplicand_0, multiplicand_1, addend) ==
    LET result == arithmetic_extension_special_cases(
                      const_0, const_1, multiplicand_0, multiplicand_1, addend)
        zero == zero_extension
        first_term_zero ==
            const_0 = F_ZERO \/ multiplicand_0 = zero \/ multiplicand_1 = zero
        r == double_arithmetic_extension(b, const_0, const_1, multiplicand_0,
                                         multiplicand_1, addend, zero, zero, zero)
    IN  IF result # None THEN [b |-> b, t |-> result[1]]
        ELSE IF first_term_zero THEN [b |-> b, t |-> addend]
        ELSE [b |-> r.b, t |-> r.t0]

arithmetic_extension(b, const_0, const_1, multiplicand_0, multiplicand_1, addend) ==
    LET result == arithmetic_extension_special_cases(
                      const_0, const_1, multiplicand_0, multiplicand_1, addend)
        zero == zero_extension
        r == double_arithmetic_extension(b, const_0, const_1, multiplicand_0,
                                         multiplicand_1, addend, zero, zero, zero)
    IN  IF result # None THEN [b |-> b, t |-> result[1]]
        ELSE [b |-> r.b, t |-> r.t0]

\* mul_extension_with_const going through the special cases first.
mul_extension_with_const_special_cased(b, const_0, multiplicand_0, multiplicand_1) ==
    arithmetic_extension(b, const_0, F_ZERO, multiplicand_0, multiplicand_1, zero_extension)

mul_extension_with_const(b, const_0, multiplicand_0, multiplicand_1) ==
    LET zero == zero_extension
        r == double_arithmetic_extension(b, const_0, F_ZERO, multiplicand_0,
                                         multiplicand_1, zero, zero, zero, zero)
    IN  [b |-> r.b, t |-> r.t0]

mul_extension(b, multiplicand_0, multiplicand_1) ==
    mul_extension_with_const(b, F_ONE, multiplicand_0, multiplicand_1)

\* mul_three_extension taking the gate index as if read after the allocation.
mul_three_extension_late_index(b, a0, a1, c) ==
    LET zero == zero_extension
        gate == num_gates(b) + 1
        first_out == from_range(gate, wires_first_output)
        r == double_arithmetic_extension(b, F_ONE, F_ZERO, a0, a1, zero,
                                         c, first_out, zero)
    IN  [b |-> r.b, t |-> r.t1]

\* Multiply 3 ExtensionTargets with 1 ArithmeticExtensionGate: the second
\* slot multiplies c by the first output of the gate about to be allocated.
mul_three_extension(b, a0, a1, c) ==
    LET zero == zero_extension
        gate == num_gates(b)
        first_out == from_range(gate, wires_first_output)
        r == double_arithmetic_extension(b, F_ONE, F_ZERO, a0, a1, zero,
                                         c, first_out, zero)
    IN  [b |-> r.b, t |-> r.t1]

RECURSIVE mul_many_chunks(_, _, _)
\* for chunk in terms.chunks_exact(2) { acc = mul_three_extension(acc, chunk[0], chunk[1]) }
mul_many_chunks(b, acc, terms) ==
    IF Len(terms) < 2 THEN [b |-> b, t |-> acc]
    ELSE LET r == mul_three_extension(b, acc, terms[1], terms[2])
         IN  mul_many_chunks(r.b, r.t, SubSeq(terms, 3, Len(terms)))

\* terms.resize(n, x) for n >= Len(terms)
Resize(terms, n, x) == [i \in 1 .. n |-> IF i <= Len(terms) THEN terms[i] ELSE x]

\* Multiply n ExtensionTargets with n/2 ArithmeticExtensionGates.
mul_many_extension(b, terms0) ==
    LET one == one_extension
        terms == IF Len(terms0) < 3 THEN Resize(terms0, 3, one)
                 ELSE IF Len(terms0) % 2 = 0 THEN Append(terms0, one)
                 ELSE terms0
        r == mul_three_extension(b, terms[1], terms[2], terms[3])
    IN  IF terms0 = <<>> THEN [b |-> b, t |-> one]
        ELSE mul_many_chunks(r.b, r.t, SubSeq(terms, 4, Len(terms)))

\* add_extension with the operands in the wrong places: a * b + one.
add_extension_misplaced_one(b, a0, b0) ==
    arithmetic_extension(b, F_ONE, F_ONE, a0, b0, one_extension)

\* add(a, b) = arithmetic(1, 1, one, a, b)
add_extension(b, a0, b0) ==
    LET one == one_extension
    IN  arithmetic_extension(b, F_ONE, F_ONE, one, a0, b0)

\* sub(a, b) = arithmetic(1, -1, one, a, b)
sub_extension(b, a0, b0) ==
    LET one == one_extension
    IN  arithmetic_extension(b, F_ONE, F_NEG_ONE, one, a0, b0)

\* Add 3 ExtensionTargets with 1 ArithmeticExtensionGate: the second slot
\* adds c to the first output of the gate about to be allocated.
add_three_extension(b, a0, b0, c) ==
    LET one == one_extension
        gate == num_gates(b)
        first_out == from_range(gate, wires_first_output)
        r == double_arithmetic_extension(b, F_ONE, F_ONE, one, a0, b0, one, c, first_out)
    IN  [b |-> r.b, t |-> r.t1]

RECURSIVE add_many_chunks(_, _, _)
\* for chunk in terms.chunks_exact(2) { acc = add_three_extension(acc, chunk[0], chunk[1]) }
add_many_chunks(b, acc, terms) ==
    IF Len(terms) < 2 THEN [b |-> b, t |-> acc]
    ELSE LET r == add_three_extension(b, acc, terms[1], terms[2])
         IN  add_many_chunks(r.b, r.t, SubSeq(terms, 3, Len(terms)))

\* Add n ExtensionTargets with n/2 ArithmeticExtensionGates.
add_many_extension(b, terms0) ==
    LET zero == zero_extension
        terms == IF Len(terms0) < 3 THEN Resize(terms0, 3, zero)
                 ELSE IF Len(terms0) % 2 = 0 THEN Append(terms0, zero)
                 ELSE terms0
        r == add_three_extension(b, terms[1], terms[2], terms[3])
    IN  IF terms0 = <<>> THEN [b |-> b, t |-> zero]
        ELSE add_many_chunks(r.b, r.t, SubSeq(terms, 4, Len(terms)))

RECURSIVE arithmetic_many_chunks(_, _, _, _, _)
\* The loop over operands.chunks_exact(2), two results per gate, then the
\* last triple of an odd count through arithmetic_extension.
arithmetic_many_chunks(b, const_0, const_1, operands, res) ==
    IF Len(operands) >= 2
    THEN LET r == double_arithmetic_extension(b, const_0, const_1, operands[1][1], operands[1][2], operands[1][3], operands[2][1], operands[2][2], operands[2][3])
         IN  arithmetic_many_chunks(r.b, const_0, const_1,
                                    SubSeq(operands, 3, Len(operands)),
                                    res \o <<r.t0, r.t1>>)
    ELSE IF Len(operands) = 1
    THEN LET r == arithmetic_extension(b, const_0, const_1, operands[1][1],
                                       operands[1][2], operands[1][3])
         IN  [b |-> r.b, ts |-> Append(res, r.t)]
    ELSE [b |-> b, ts |-> res]

\* One result const_0 * m0 * m1 + const_1 * a per operand triple [m0, m1, a].
arithmetic_many_extension(b, const_0, const_1, operands) ==
    arithmetic_many_chunks(b, const_0, const_1, operands, <<>>)

\* The index pairs (i, j), lo <= j <= hi, of one row, in increasing j.
IndexRow(i, lo, hi) == [k \in 1 .. (IF hi < lo THEN 0 ELSE hi - lo + 1) |-> <<i, lo + k - 1>>]

RECURSIVE ProductOrder(_, _)
\* for i in 0..n { for j in 0..n - i {..} for j in n - i..n {..} }: the index
\* pairs in the order the loops of mul_ext_algebra visit them, from row i on.
ProductOrder(n, i) ==
    IF i >= n THEN <<>>
    ELSE IndexRow(i, 0, n - 1 - i) \o IndexRow(i, n - i, n - 1) \o ProductOrder(n, i + 1)

\* The operand triples [a[i], b[j], zero] of the index pairs ij.
ProductOperands(a, bb, ij) ==
    [k \in 1 .. Len(ij) |-> <<a[ij[k][1] + 1], bb[ij[k][2] + 1], zero_extension>>]

RECURSIVE Distribute(_, _, _, _, _)
\* toadd[(i + j) % n].push(muls.remove(0)) for the pairs below the degree and
\* toadd[(i + j) % n].push(mulsw.remove(0)) for the wrapped ones.
Distribute(n, order, muls, mulsw, toadd) ==
    IF order = <<>> THEN toadd
    ELSE LET i == order[1][1]
             j == order[1][2]
             k == ((i + j) % n) + 1
         IN  IF j < n - i
             THEN Distribute(n, Tail(order), Tail(muls), mulsw,
                             [toadd EXCEPT ![k] = Append(@, Head(muls))])
             ELSE Distribute(n, Tail(order), muls, Tail(mulsw),
                             [toadd EXCEPT ![k] = Append(@, Head(mulsw))])

RECURSIVE AddCoordinates(_, _, _)
\* for i in 0..n { res[i] = add_many_extension(&toadd[i]) }
AddCoordinates(b, toadd, res) ==
    IF Len(res) = Len(toadd) THEN [b |-> b, ts |-> res]
    ELSE LET r == add_many_extension(b, toadd[Len(res) + 1])
         IN  AddCoordinates(r.b, toadd, Append(res, r.t))

\* mul_ext_algebra scaling the wrapped products by ONE.
mul_ext_algebra_unscaled_wrap(b, a, bb) ==
    LET n == Len(a)
        order == ProductOrder(n, 0)
        ops == ProductOperands(a, bb, SelectSeq(order, LAMBDA e : e[2] < n - e[1]))
        opsw == ProductOperands(a, bb, SelectSeq(order, LAMBDA e : e[2] >= n - e[1]))
        muls == arithmetic_many_extension(b, F_ONE, F_ONE, ops)
        mulsw == arithmetic_many_extension(muls.b, F_ONE, F_ONE, opsw)
        toadd == Distribute(n, order, muls.ts, mulsw.ts, [k \in 1 .. n |-> <<>>])
    IN  AddCoordinates(mulsw.b, toadd, <<>>)

\* The product of two ExtensionAlgebraTargets, arrays of as many extension
\* targets as the degree; the degree n is read off the array, so that the
\* algebras of degree 2, 4 and 5 are built by the same definition.
mul_ext_algebra(b, a, bb) ==
    LET n == Len(a)
        order == ProductOrder(n, 0)
        ops == ProductOperands(a, bb, SelectSeq(order, LAMBDA e : e[2] < n - e[1]))
        opsw == ProductOperands(a, bb, SelectSeq(order, LAMBDA e : e[2] >= n - e[1]))
        muls == arithmetic_many_extension(b, F_ONE, F_ONE, ops)
        mulsw == arithmetic_many_extension(muls.b, W % Order, F_ONE, opsw)
        toadd == Distribute(n, order, muls.ts, mulsw.ts, [k \in 1 .. n |-> <<>>])
    IN  AddCoordinates(mulsw.b, toadd, <<>>)

\* Computes x^2.
square_extension(b, x) == mul_extension(b, x, x)

\* Computes x^3.
cube_extension(b, x) == mul_three_extension(b, x, x, x)

RECURSIVE bits_u64(_)
\* 64 - n.leading_zeros(): the bit length of n.
bits_u64(n) == IF n = 0 THEN 0 ELSE 1 + bits_u64(n \div 2)

RECURSIVE exp_u64_loop(_, _, _, _, _)
\* for j in 0..bits { if (exponent >> j & 1) != 0 { product = product * current }
\*                    current = current^2 }, with exponent already shifted by j.
exp_u64_loop(b, current, product, exponent, bits) ==
    IF bits = 0 THEN [b |-> b, t |-> product]
    ELSE LET m == IF exponent % 2 # 0 THEN mul_extension(b, product, current)
                  ELSE [b |-> b, t |-> product]
             sq == square_extension(m.b, current)
         IN  exp_u64_loop(sq.b, sq.t, m.t, exponent \div 2, bits - 1)

\* exp_u64_extension without the last squaring's partner: the loop stops one
\* bit short.
exp_u64_extension_short_loop(b, base, exponent) ==
    IF exponent = 0 THEN [b |-> b, t |-> one_extension]
    ELSE IF exponent = 1 THEN [b |-> b, t |-> base]
    ELSE IF exponent = 2 THEN square_extension(b, base)
    ELSE IF exponent = 3 THEN cube_extension(b, base)
    ELSE exp_u64_loop(b, base, one_extension, exponent, bits_u64(exponent) - 1)

\* Exponentiate base to the power of a known exponent.
exp_u64_extension(b, base, exponent) ==
    IF exponent = 0 THEN [b |-> b, t |-> one_extension]
    ELSE IF exponent = 1 THEN [b |-> b, t |-> base]
    ELSE IF exponent = 2 THEN square_extension(b, base)
    ELSE IF exponent = 3 THEN cube_extension(b, base)
    ELSE exp_u64_loop(b, base, one_extension, exponent, bits_u64(exponent))

\* inverse_extension without the constraint x * inv == ONE.
inverse_extension_unconstrained(b, x) ==
    LET v == add_virtual_extension_target(b)
        inv == v.t
        one == one_extension
        b1 == add_generator(v.b, [numerator |-> one, denominator |-> x, quotient |-> inv])
        m == mul_extension(b1, x, inv)
    IN  [b |-> m.b, t |-> inv]

\* Computes 1 / x.  Results in an unsatisfiable instance if x = 0.
inverse_extension(b, x) ==
    LET v == add_virtual_extension_target(b)
        inv == v.t
        one == one_extension
        b1 == add_generator(v.b, [numerator |-> one, denominator |-> x, quotient |-> inv])
        m == mul_extension(b1, x, inv)
    IN  [b |-> assert_equal_extension(m.b, m.t, one), t |-> inv]

\* div_extension multiplying the inverse by the denominator.
div_extension_wrong_operand(b, x, y) ==
    LET y_inv == inverse_extension(b, y)
    IN  mul_extension(y_inv.b, y, y_inv.t)

\* Computes x / y.  Results in an unsatisfiable instance if y = 0.
div_extension(b, x, y) ==
    LET y_inv == inverse_extension(b, y)
    IN  mul_extension(y_inv.b, x, y_inv.t)

\* div_unsafe_extension requiring q * y = y.
div_unsafe_extension_wrong_assert(b, x, y) ==
    LET v == add_virtual_extension_target(b)
        quotient == v.t
        b1 == add_generator(v.b, [numerator |-> x, denominator |-> y, quotient |-> quotient])
        q_y == mul_extension(b1, quotient, y)
    IN  [b |-> assert_equal_extension(q_y.b, q_y.t, y), t |-> quotient]

\* Computes q = x / y by witnessing q and requiring that q * y = x.
div_unsafe_extension(b, x, y) ==
    LET v == add_virtual_extension_target(b)
        quotient == v.t
        b1 == add_generator(v.b, [numerator |-> x, denominator |-> y, quotient |-> quotient])
        q_y == mul_extension(b1, quotient, y)
    IN  [b |-> assert_equal_extension(q_y.b, q_y.t, x), t |-> quotient]

(***************************************************************************)
(* Powers iterator                                                         *)
(***************************************************************************)

\* ExtensionTarget::repeated_frobenius(count, builder): the in-circuit
\* count-fold Frobenius image of t, a fresh target constrained to it; the
\* target itself when count is a multiple of D.
target_repeated_frobenius(b, t, count) ==
    IF count % D = 0 THEN [b |-> b, t |-> t]
    ELSE LET v == add_virtual_extension_target(b)
         IN  [b |-> [v.b EXCEPT !.frobenius =
                        Append(@, [count |-> count % D, src |-> t, dst |-> v.t])],
              t |-> v.t]

\* CircuitBuilder::powers(base)
powers_new(base) == [base |-> base, current |-> one_extension]

\* next returning the updated current.
powers_next_returns_updated(b, p) ==
    LET m == mul_extension(b, p.base, p.current)
    IN  [b |-> m.b, p |-> [base |-> p.base, current |-> m.t], t |-> m.t]

\* PowersTarget::next: returns current, then current := base * current.
powers_next(b, p) ==
    LET result == p.current
        m == mul_extension(b, p.base, p.current)
    IN  [b |-> m.b, p |-> [base |-> p.base, current |-> m.t], t |-> result]

\* repeated_frobenius transforming the base only.
powers_repeated_frobenius_base_only(b, p, k) ==
    LET rb == target_repeated_frobenius(b, p.base, k)
    IN  [b |-> rb.b, p |-> [base |-> rb.t, current |-> p.current]]

\* PowersTarget::repeated_frobenius(k, builder)
powers_repeated_frobenius(b, p, k) ==
    LET rb == target_repeated_frobenius(b, p.base, k)
        rc == target_repeated_frobenius(rb.b, p.current, k)
    IN  [b |-> rc.b, p |-> [base |-> rb.t, current |-> rc.t]]

(***************************************************************************)
(* Witness generation and constraint evaluation                            *)
(***************************************************************************)

EmptyWitness == [t \in {} |-> 0]

\* A constant wire always carries its constant.
Assigned(w, t) == t[1] = "const" \/ t \in DOMAIN w

ExtAssigned(w, et) == \A i \in 1 .. D : Assigned(w, et[i])

Get(w, t) ==
    IF t[1] = "const" THEN t[2] ELSE IF t \in DOMAIN w THEN w[t] ELSE 0

get_extension_target(w, et) == [i \in 1 .. D |-> Get(w, et[i])]

set_extension_target(w, et, value) ==
    LET new == {et[i] : i \in 1 .. D}
    IN  [t \in DOMAIN w \cup new |->
            IF t \in new THEN value[CHOOSE i \in 1 .. D : et[i] = t] ELSE w[t]]

\* dependencies declaring the numerator's wires only.
dependencies_numerator_only(g) == to_target_array(g.numerator)

\* QuotientGeneratorExtension::dependencies
dependencies(g) == to_target_array(g.numerator) \o to_target_array(g.denominator)

\* QuotientGeneratorExtension::run_once; iz is the host's inverse of zero.
run_once(w, g, iz) ==
    LET num == get_extension_target(w, g.numerator)
        dem == get_extension_target(w, g.denominator)
        quotient == ExtDiv(num, dem, iz)
    IN  set_extension_target(w, g.quotient, quotient)

\* The operands routed to slot s (0 or 1) of a gate, and its output group.
SlotOperands(gate, s) == SubSeq(gate.ins, 3 * s + 1, 3 * s + 3)

SlotOutput(g, s) ==
    from_range(g, IF s = 0 THEN wires_first_output ELSE wires_second_output)

\* The gate's relation: output = const_0 * m0 * m1 + const_1 * addend.
SlotValue(w, gate, s) ==
    LET ops == SlotOperands(gate, s)
        m0 == get_extension_target(w, ops[1])
        m1 == get_extension_target(w, ops[2])
        a == get_extension_target(w, ops[3])
    IN  ExtAdd(ExtMul(FromBase(gate.consts[1]), ExtMul(m0, m1)),
               ExtMul(FromBase(gate.consts[2]), a))

SlotReady(b, w, g, s) ==
    /\ \A k \in 1 .. 3 : ExtAssigned(w, SlotOperands(b.gates[g + 1], s)[k])
    /\ ~ExtAssigned(w, SlotOutput(g, s))

QuotientReady(b, w, done, i) ==
    /\ \A k \in 1 .. Len(done) : done[k] # i
    /\ \A k \in 1 .. Len(dependencies(b.generators[i])) :
           Assigned(w, dependencies(b.generators[i])[k])

FrobeniusReady(b, w, i) ==
    /\ ExtAssigned(w, b.frobenius[i].src)
    /\ ~ExtAssigned(w, b.frobenius[i].dst)

NothingReady(b, w, done) ==
    /\ \A g \in 0 .. num_gates(b) - 1 : \A s \in {0, 1} : ~SlotReady(b, w, g, s)
    /\ \A i \in 1 .. Len(b.generators) : ~QuotientReady(b, w, done, i)
    /\ \A i \in 1 .. Len(b.frobenius) : ~FrobeniusReady(b, w, i)

GateHolds(b, w, g) ==
    \A s \in {0, 1} :
        /\ \A k \in 1 .. 3 : ExtAssigned(w, SlotOperands(b.gates[g + 1], s)[k])
        /\ ExtAssigned(w, SlotOutput(g, s))
        /\ get_extension_target(w, SlotOutput(g, s)) = SlotValue(w, b.gates[g + 1], s)

CopyHolds(w, c) ==
    /\ ExtAssigned(w, c[1])
    /\ ExtAssigned(w, c[2])
    /\ get_extension_target(w, c[1]) = get_extension_target(w, c[2])

FrobeniusHolds(w, f) ==
    /\ ExtAssigned(w, f.src)
    /\ ExtAssigned(w, f.dst)
    /\ get_extension_target(w, f.dst) =
           ExtRepeatedFrobenius(get_extension_target(w, f.src), f.count)

\* The witness satisfies every constraint of the circuit.
Satisfied(b, w) ==
    /\ \A g \in 0 .. num_gates(b) - 1 : GateHolds(b, w, g)
    /\ \A k \in 1 .. Len(b.copy_constraints) : CopyHolds(w, b.copy_constraints[k])
    /\ \A k \in 1 .. Len(b.frobenius) : FrobeniusHolds(w, b.frobenius[k])

\* The outcome of data.prove(pw): a proof exists iff the instance is satisfied.
ProofSucceeds == phase = "done" /\ Satisfied(builder, witness)

ProofFails == phase = "done" /\ ~Satisfied(builder, witness)

(***************************************************************************)
(* Actions                                                                 *)
(***************************************************************************)

\* The caller's two input targets, allocated before any gadget call.
InX == add_virtual_extension_target(NewBuilder).t

InY == add_virtual_extension_target(add_virtual_extension_target(NewBuilder).b).t

InitBuilder == add_virtual_extension_target(add_virtual_extension_target(NewBuilder).b).b

\* pw.set_extension_target(x, xv); pw.set_extension_target(y, yv)
InputWitness(xv, yv) ==
    set_extension_target(set_extension_target(EmptyWitness, InX, xv), InY, yv)

Init ==
    /\ builder = InitBuilder
    /\ calls = <<>>
    /\ powers = <<>>
    /\ phase = "build"
    /\ witness = EmptyWitness
    /\ ran = <<>>
    /\ invZero = <<>>

\* A gadget call r on the builder, logged with its operands, the returned
\* target and the gate count before and after.
Log(op, consts, args, r) ==
    /\ phase = "build"
    /\ builder' = r.b
    /\ calls' = Append(calls, [op |-> op, consts |-> consts, args |-> args,
                               ret |-> r.t, before |-> num_gates(builder),
                               after |-> num_gates(r.b)])
    /\ UNCHANGED <<phase, witness, ran, invZero>>

DivExtension(x, y) ==
    /\ Log("div_extension", <<>>, <<x, y>>, div_extension(builder, x, y))
    /\ UNCHANGED powers

DivUnsafeExtension(x, y) ==
    /\ Log("div_unsafe_extension", <<>>, <<x, y>>, div_unsafe_extension(builder, x, y))
    /\ UNCHANGED powers

InverseExtension(x) ==
    /\ Log("inverse_extension", <<>>, <<x>>, inverse_extension(builder, x))
    /\ UNCHANGED powers

\* data.prove(pw): witness generation starts from the caller's inputs.
Prove(pw) ==
    /\ phase = "build"
    /\ phase' = "witness"
    /\ witness' = pw
    /\ UNCHANGED <<builder, calls, powers, ran, invZero>>

\* The engine runs quotient generator i, whose dependencies are assigned.
\* Host inversion of zero is resolved, among hostInvZero, when first needed.
RunQuotientGenerator(i, hostInvZero) ==
    /\ phase = "witness"
    /\ QuotientReady(builder, witness, ran, i)
    /\ LET dem == get_extension_target(witness, builder.generators[i].denominator)
       IN  invZero' \in IF dem = ZERO /\ invZero = <<>> THEN hostInvZero ELSE {invZero}
    /\ witness' = run_once(witness, builder.generators[i], invZero')
    /\ ran' = Append(ran, i)
    /\ UNCHANGED <<builder, calls, powers, phase>>

\* The engine runs the generator of slot s of gate g.  Gate generators are
\* taken in the order of the generator list: the first ready slot runs.
RunArithmeticGenerator(g, s) ==
    /\ phase = "witness"
    /\ SlotReady(builder, witness, g, s)
    /\ \A g2 \in 0 .. g, s2 \in {0, 1} :
           2 * g2 + s2 < 2 * g + s => ~SlotReady(builder, witness, g2, s2)
    /\ witness' = set_extension_target(witness, SlotOutput(g, s),
                                       SlotValue(witness, builder.gates[g + 1], s))
    /\ UNCHANGED <<builder, calls, powers, phase, ran, invZero>>

\* The engine runs the generator of in-circuit Frobenius i.
RunFrobeniusGenerator(i) ==
    /\ phase = "witness"
    /\ FrobeniusReady(builder, witness, i)
    /\ witness' = set_extension_target(
                      witness, builder.frobenius[i].dst,
                      ExtRepeatedFrobenius(
                          get_extension_target(witness, builder.frobenius[i].src),
                          builder.frobenius[i].count))
    /\ UNCHANGED <<builder, calls, powers, phase, ran, invZero>>

\* No generator is left to run: the constraints are evaluated.
Finish ==
    /\ phase = "witness"
    /\ NothingReady(builder, witness, ran)
    /\ phase' = "done"
    /\ UNCHANGED <<builder, calls, powers, witness, ran, invZero>>

(***************************************************************************)
(* Division and inversion of the two inputs, over all input values         *)
(***************************************************************************)

MaxDivCalls == 1

Next ==
    \/ Len(calls) < MaxDivCalls /\ DivExtension(InX, InY)
    \/ Len(calls) < MaxDivCalls /\ DivUnsafeExtension(InX, InY)
    \/ Len(calls) < MaxDivCalls /\ InverseExtension(InY)
    \/ \E xv \in Ext, yv \in Ext : Prove(InputWitness(xv, yv))
    \/ \E i \in 1 .. Len(builder.generators) : RunQuotientGenerator(i, Ext)
    \/ \E g \in 0 .. num_gates(builder) - 1, s \in {0, 1} : RunArithmeticGenerator(g, s)
    \/ Finish

Spec == Init /\ [][Next]_vars

\* The denominator operand of a logged division or inversion.
Denominator(c) == c.args[Len(c.args)]

Value(et) == get_extension_target(witness, et)

\* The copy constraint registered together with quotient generator i: every
\* gadget that registers a generator emits exactly one assert_equal_extension,
\* on the product quotient * denominator and the numerator.
PairedConstraint(b, i) == b.copy_constraints[i]

\* C1: when the denominator of a div_extension or inverse_extension carries
\* zero, witness generation completes and the instance is unsatisfied, for
\* every value host inversion of zero may write into the inverse target.
C1_DivByZeroUnsatisfied ==
    phase = "done" =>
        \A k \in 1 .. Len(calls) :
            (/\ calls[k].op \in {"div_extension", "inverse_extension"}
             /\ Value(Denominator(calls[k])) = ZERO)
            => ~Satisfied(builder, witness)

C1_Witness ==
    /\ ProofFails
    /\ \E k \in 1 .. Len(calls) :
           /\ calls[k].op = "div_extension"
           /\ Value(Denominator(calls[k])) = ZERO
           /\ Value(calls[k].args[1]) # ZERO
    /\ invZero \notin {<<>>, ZERO}

\* C2 as stated: a zero denominator always leaves the paired constraint
\* quotient * denominator == numerator unsatisfied.
C2_ZeroDenominatorNeverSatisfied ==
    phase = "done" =>
        \A i \in 1 .. Len(builder.generators) :
            Value(builder.generators[i].denominator) = ZERO
            => ~CopyHolds(witness, PairedConstraint(builder, i))

\* C2 amended: with a zero denominator the paired constraint is satisfied
\* exactly when the numerator is zero too (0 / 0, which only
\* div_unsafe_extension admits, as inverse_extension's numerator is ONE).
C2_ZeroDenominatorSatisfiedIffZeroNumerator ==
    phase = "done" =>
        \A i \in 1 .. Len(builder.generators) :
            Value(builder.generators[i].denominator) = ZERO
            => (CopyHolds(witness, PairedConstraint(builder, i))
                <=> Value(builder.generators[i].numerator) = ZERO)

C2_Witness ==
    /\ phase = "done"
    /\ \E k \in 1 .. Len(calls) :
           /\ calls[k].op = "div_unsafe_extension"
           /\ Value(Denominator(calls[k])) = ZERO
           /\ Value(calls[k].args[1]) # ZERO
    /\ ~CopyHolds(witness, PairedConstraint(builder, 1))
    /\ invZero \notin {<<>>, ZERO}

\* C3: with a nonzero denominator the targets returned by div_extension and
\* div_unsafe_extension carry the host quotient x / y, y times the returned
\* value is x, and the instance is satisfied.
C3_DivisionCorrect ==
    phase = "done" =>
        /\ \A k \in 1 .. Len(calls) :
               (/\ calls[k].op \in {"div_extension", "div_unsafe_extension"}
                /\ Value(Denominator(calls[k])) # ZERO)
               => /\ Value(calls[k].ret) =
                         ExtDiv(Value(calls[k].args[1]), Value(Denominator(calls[k])), ZERO)
                  /\ ExtMul(Value(Denominator(calls[k])), Value(calls[k].ret)) =
                         Value(calls[k].args[1])
        /\ (\A k \in 1 .. Len(calls) : Value(Denominator(calls[k])) # ZERO)
           => Satisfied(builder, witness)

C3_Witness ==
    /\ ProofSucceeds
    /\ \E k \in 1 .. Len(calls) :
           /\ calls[k].op = "div_extension"
           /\ Value(calls[k].args[1]) \notin {ZERO, ONE}
           /\ Value(Denominator(calls[k])) \notin {ZERO, ONE}
           /\ Value(calls[k].ret) \notin {ZERO, ONE}

(***************************************************************************)
(* arithmetic_extension and mul_extension on constant, zero, one, mixed    *)
(* and non-constant operands                                               *)
(***************************************************************************)

ArithmeticExtension(const_0, const_1, m0, m1, addend) ==
    /\ Log("arithmetic_extension", <<const_0, const_1>>, <<m0, m1, addend>>,
           arithmetic_extension(builder, const_0, const_1, m0, m1, addend))
    /\ UNCHANGED powers

MulExtension(a, b) ==
    /\ Log("mul_extension", <<>>, <<a, b>>, mul_extension(builder, a, b))
    /\ UNCHANGED powers

\* convert_to_ext(t): the base target t as the extension target (t, 0, ..).
convert_to_ext(t) == [i \in 1 .. D |-> IF i = 1 THEN t ELSE ConstantTarget(F_ZERO)]

\* The scalars tried: ZERO, ONE, NEG_ONE and 3, the inverse of the constant 2.
ArithConsts0 == {F_ZERO, F_ONE, 3}

ArithConsts1 == {F_ZERO, F_ONE, F_NEG_ONE}

\* The operands tried: the zero and one targets, the constant 2, a
\* non-constant target and a target with one constant wire only.
ArithTargets ==
    {zero_extension, one_extension, constant_extension(FromBase(2)), InX,
     convert_to_ext(InY[1])}

ArithAddends == {zero_extension, constant_extension(FromBase(2)), InX}

MaxArithCalls == 1

NextArith ==
    \/ /\ Len(calls) < MaxArithCalls
       /\ \E const_0 \in ArithConsts0, const_1 \in ArithConsts1,
             m0 \in ArithTargets, m1 \in ArithTargets, addend \in ArithAddends :
              ArithmeticExtension(const_0, const_1, m0, m1, addend)
    \/ /\ Len(calls) < MaxArithCalls
       /\ \E a \in ArithTargets, b \in ArithTargets : MulExtension(a, b)

SpecArith == Init /\ [][NextArith]_vars

IsConstant(t) == \A i \in 1 .. D : t[i][1] = "const"

ConstantValue(t) == [i \in 1 .. D |-> t[i][2]]

\* The rules of C4 on one logged call.
FirstTermZero(c) ==
    c.consts[1] = F_ZERO \/ c.args[1] = zero_extension \/ c.args[2] = zero_extension

SecondTermZero(c) == c.consts[2] = F_ZERO \/ c.args[3] = zero_extension

Rule1(c) ==
    /\ FirstTermZero(c) \/ (IsConstant(c.args[1]) /\ IsConstant(c.args[2]))
    /\ SecondTermZero(c) \/ IsConstant(c.args[3])

Rule1Sum(c) ==
    ExtAdd(IF FirstTermZero(c) THEN ZERO
           ELSE ExtScalarMul(c.consts[1],
                    ExtMul(ConstantValue(c.args[1]), ConstantValue(c.args[2]))),
           IF SecondTermZero(c) THEN ZERO
           ELSE ExtScalarMul(c.consts[2], ConstantValue(c.args[3])))

Rule2(c) == ~Rule1(c) /\ FirstTermZero(c) /\ c.consts[2] = F_ONE

InverseOfConst0(c, t) ==
    IsConstant(t) /\ ExtScalarMul(c.consts[1], ConstantValue(t)) = ONE

Rule3(c) ==
    /\ ~Rule1(c) /\ ~Rule2(c) /\ SecondTermZero(c)
    /\ InverseOfConst0(c, c.args[1]) \/ InverseOfConst0(c, c.args[2])

\* The call allocated exactly one gate, wired to (m0, m1, addend) in the
\* first slot and to three zero operands in the second, and returned the
\* gate's first output.
GatePath(c) ==
    /\ c.after = c.before + 1
    /\ builder.gates[c.after] =
           [consts |-> c.consts,
            ins |-> <<c.args[1], c.args[2], c.args[3],
                      zero_extension, zero_extension, zero_extension>>]
    /\ c.ret = from_range(c.before, wires_first_output)

\* C4: every arithmetic_extension call follows the four rules in priority order.
C4_SpecialCaseRules ==
    \A k \in 1 .. Len(calls) :
        LET c == calls[k]
        IN  c.op = "arithmetic_extension" =>
                IF Rule1(c) THEN c.after = c.before /\ c.ret = constant_extension(Rule1Sum(c))
                ELSE IF Rule2(c) THEN c.after = c.before /\ c.ret = c.args[3]
                ELSE IF Rule3(c)
                THEN /\ c.after = c.before
                     /\ c.ret = IF InverseOfConst0(c, c.args[1]) THEN c.args[2] ELSE c.args[1]
                ELSE GatePath(c)

\* Each rule is taken by some call: a folded non-zero constant sum, a passed
\* addend, a passed multiplicand next to the constant 2 (const_0 = 3), a gate.
C4_Witness ==
    /\ \E k \in 1 .. Len(calls) :
           /\ calls[k].op = "arithmetic_extension"
           /\ Rule3(calls[k])
           /\ calls[k].args[2] = constant_extension(FromBase(2))
           /\ calls[k].ret = InX
           /\ calls[k].after = calls[k].before

\* C5 as stated: a call with const_0 = ZERO allocates no gate, returns the
\* constant const_1 * addend for a constant addend and the addend itself
\* when const_1 = ONE.
C5_ZeroConst0NeverAllocates ==
    \A k \in 1 .. Len(calls) :
        LET c == calls[k]
        IN  (c.op = "arithmetic_extension" /\ c.consts[1] = F_ZERO) =>
                /\ c.after = c.before
                /\ IsConstant(c.args[3]) =>
                       c.ret = constant_extension(
                                   ExtScalarMul(c.consts[2], ConstantValue(c.args[3])))
                /\ c.consts[2] = F_ONE => c.ret = c.args[3]

\* C5 amended: a call with const_0 = ZERO allocates no gate exactly when
\* const_1 is ZERO or ONE or the addend is a constant, and one gate
\* otherwise; the returned targets are as stated.
C5_ZeroConst0AllocatesOnlyForScaledAddend ==
    \A k \in 1 .. Len(calls) :
        LET c == calls[k]
        IN  (c.op = "arithmetic_extension" /\ c.consts[1] = F_ZERO) =>
                /\ IF c.consts[2] \in {F_ZERO, F_ONE} \/ IsConstant(c.args[3])
                   THEN c.after = c.before
                   ELSE GatePath(c)
                /\ IsConstant(c.args[3]) =>
                       c.ret = constant_extension(
                                   ExtScalarMul(c.consts[2], ConstantValue(c.args[3])))
                /\ c.consts[2] = F_ONE => c.ret = c.args[3]

C5_Witness ==
    \E k \in 1 .. Len(calls) :
        /\ calls[k].op = "arithmetic_extension"
        /\ calls[k].consts = <<F_ZERO, F_NEG_ONE>>
        /\ calls[k].args = <<InX, InX, InX>>
        /\ calls[k].after = calls[k].before + 1

\* The call logged by the step, when the step is a gadget call.
NewCall == calls'[Len(calls')]

IsCall(op) == Len(calls') = Len(calls) + 1 /\ NewCall.op = op

\* C6 as stated: mul_extension(a, b) returns the target and leaves the gate
\* count that arithmetic_extension(ONE, ZERO, a, b, zero) would from the
\* same builder.
C6_MulIsArithmetic ==
    [][IsCall("mul_extension") =>
           LET r == arithmetic_extension(builder, F_ONE, F_ZERO, NewCall.args[1],
                                         NewCall.args[2], zero_extension)
           IN  NewCall.ret = r.t /\ num_gates(builder') = num_gates(r.b)]_vars

\* C6 amended: mul_extension(a, b) always allocates one gate and returns its
\* first output; it leaves the builder arithmetic_extension(ONE, ZERO, a, b,
\* zero) would leave, and returns the same target, exactly when no special
\* case applies to that call, and otherwise arithmetic_extension allocates
\* no gate.
C6_MulIsArithmeticGatePath ==
    [][IsCall("mul_extension") =>
           LET a == NewCall.args[1]
               b == NewCall.args[2]
               r == arithmetic_extension(builder, F_ONE, F_ZERO, a, b, zero_extension)
               special == arithmetic_extension_special_cases(
                              F_ONE, F_ZERO, a, b, zero_extension)
           IN  /\ num_gates(builder') = num_gates(builder) + 1
               /\ NewCall.ret = from_range(num_gates(builder), wires_first_output)
               /\ builder'.gates[num_gates(builder')] =
                      [consts |-> <<F_ONE, F_ZERO>>,
                       ins |-> <<a, b, zero_extension,
                                 zero_extension, zero_extension, zero_extension>>]
               /\ IF special = None
                  THEN builder' = r.b /\ NewCall.ret = r.t
                  ELSE num_gates(r.b) = num_gates(builder) /\ NewCall.ret # r.t]_vars

C6_Witness ==
    \E k \in 1 .. Len(calls) :
        /\ calls[k].op = "mul_extension"
        /\ calls[k].args = <<one_extension, InX>>
        /\ calls[k].after = calls[k].before + 1
        /\ arithmetic_extension(InitBuilder, F_ONE, F_ZERO, one_extension, InX,
                                zero_extension).t = InX

(***************************************************************************)
(* Products of many terms (tests::test_mul_many)                           *)
(***************************************************************************)

RECURSIVE pairwise_product(_, _, _)
\* for &t in &ts { acc = builder.mul_extension(acc, t) }
pairwise_product(b, acc, ts) ==
    IF ts = <<>> THEN [b |-> b, t |-> acc]
    ELSE LET m == mul_extension(b, acc, ts[1])
         IN  pairwise_product(m.b, m.t, Tail(ts))

CallRecord(op, args, b0, r) ==
    [op |-> op, consts |-> <<>>, args |-> args, ret |-> r.t,
     before |-> num_gates(b0), after |-> num_gates(r.b)]

\* The test on the terms ts: mul0 by mul_many_extension, mul1 by the pairwise
\* loop from ONE and, for three terms, mul2 by mul_three_extension, each
\* asserted equal to the previous one.
TestMulMany(ts) ==
    /\ phase = "build"
    /\ calls = <<>>
    /\ LET mul0 == mul_many_extension(builder, ts)
           mul1 == pairwise_product(mul0.b, one_extension, ts)
           mul2 == mul_three_extension(mul1.b, ts[1], ts[2], ts[3])
           b01 == assert_equal_extension(mul1.b, mul0.t, mul1.t)
           two == <<CallRecord("mul_many_extension", ts, builder, mul0),
                    CallRecord("pairwise_product", ts, mul0.b, mul1)>>
       IN  IF Len(ts) = 3
           THEN /\ builder' = assert_equal_extension(
                                  assert_equal_extension(mul2.b, mul0.t, mul1.t),
                                  mul1.t, mul2.t)
                /\ calls' = Append(two, CallRecord("mul_three_extension", ts, mul1.b, mul2))
           ELSE /\ builder' = b01
                /\ calls' = two
    /\ UNCHANGED <<powers, phase, witness, ran, invZero>>

MaxTerms == 7

TermLists == UNION {[1 .. n -> {InX, InY}] : n \in 0 .. MaxTerms}

\* The values sampled for the terms.
SampleValues == {<<2, 0>>, <<1, 1>>, <<3, 4>>, <<0, 2>>}

NextMulMany ==
    \/ \E ts \in TermLists : TestMulMany(ts)
    \/ calls # <<>> /\ \E xv \in SampleValues, yv \in SampleValues : Prove(InputWitness(xv, yv))
    \/ \E g \in 0 .. num_gates(builder) - 1, s \in {0, 1} : RunArithmeticGenerator(g, s)
    \/ Finish

SpecMulMany == Init /\ [][NextMulMany]_vars

\* The host values of a sequence of targets.
Values(ts) == [i \in 1 .. Len(ts) |-> Value(ts[i])]

\* C7: the value of mul_many_extension(terms), of the pairwise product from
\* ONE and, for three terms, of mul_three_extension is the host product of
\* the terms' values, the asserted equalities hold, and in every gate of
\* mul_many_extension and mul_three_extension the second slot multiplies by
\* the first output of the same gate.
C7_MulManyIsProduct ==
    /\ phase = "done" =>
           /\ \A k \in 1 .. Len(calls) :
                  /\ ExtAssigned(witness, calls[k].ret)
                  /\ Value(calls[k].ret) = ExtProduct(Values(calls[k].args))
           /\ Satisfied(builder, witness)
    /\ \A k \in 1 .. Len(calls) :
           calls[k].op \in {"mul_many_extension", "mul_three_extension"} =>
               \A g \in calls[k].before .. calls[k].after - 1 :
                   builder.gates[g + 1].ins[5] = from_range(g, wires_first_output)

C7_Witness ==
    /\ ProofSucceeds
    /\ Len(calls[1].args) = 7
    /\ calls[1].op = "mul_many_extension"
    /\ calls[1].after = calls[1].before + 3
    /\ InX \in {calls[1].args[i] : i \in 1 .. 7}
    /\ InY \in {calls[1].args[i] : i \in 1 .. 7}
    /\ Value(calls[1].ret) \notin {ZERO, ONE}
    /\ Value(calls[1].ret) = Value(calls[2].ret)

(***************************************************************************)
(* Quotient generators chained through each other's quotients              *)
(***************************************************************************)

\* The operands of the next call: an input or the target returned last.
LastReturned == IF calls = <<>> THEN {} ELSE {calls[Len(calls)].ret}

Numerators == {InX} \cup LastReturned

Denominators == {InY} \cup LastReturned

GenValues == {ZERO, ONE, <<3, 4>>, <<0, 2>>}

MaxGenCalls == 2

NextGen ==
    \/ Len(calls) < MaxGenCalls /\ \E y \in Denominators : InverseExtension(y)
    \/ Len(calls) < MaxGenCalls /\ \E x \in Numerators, y \in Denominators : DivUnsafeExtension(x, y)
    \/ calls # <<>> /\ \E xv \in GenValues, yv \in GenValues : Prove(InputWitness(xv, yv))
    \/ \E i \in 1 .. Len(builder.generators) : RunQuotientGenerator(i, GenValues)
    \/ \E g \in 0 .. num_gates(builder) - 1, s \in {0, 1} : RunArithmeticGenerator(g, s)
    \/ Finish

SpecGen == Init /\ [][NextGen]_vars

ExtWires(et) == {et[i] : i \in 1 .. D}

\* The step runs a quotient generator.
GeneratorRuns == Len(ran') = Len(ran) + 1

\* C8: registering a generator assigns no wire and runs nothing; a generator
\* declares exactly the D wires of its numerator and the D wires of its
\* denominator; it runs at most once, only when all of them are assigned,
\* writes numerator / denominator into exactly the D wires of its quotient
\* and changes no other wire; run again on the resulting witness it writes
\* the same values.
C8_QuotientGeneratorProtocol ==
    [][/\ (IsCall("inverse_extension") \/ IsCall("div_unsafe_extension")) =>
              /\ Len(builder'.generators) = Len(builder.generators) + 1
              /\ witness' = witness /\ witness' = EmptyWitness
              /\ ran' = ran
       /\ \A i \in 1 .. Len(builder'.generators) :
              LET g == builder'.generators[i]
              IN  /\ Len(dependencies(g)) = 2 * D
                  /\ \A k \in 1 .. D : /\ dependencies(g)[k] = g.numerator[k]
                                       /\ dependencies(g)[D + k] = g.denominator[k]
       /\ \A j \in 1 .. Len(ran'), k \in 1 .. Len(ran') : j # k => ran'[j] # ran'[k]
       /\ GeneratorRuns =>
              LET g == builder.generators[ran'[Len(ran')]]
                  num == get_extension_target(witness, g.numerator)
                  dem == get_extension_target(witness, g.denominator)
              IN  /\ ExtAssigned(witness, g.numerator)
                  /\ ExtAssigned(witness, g.denominator)
                  /\ DOMAIN witness' = DOMAIN witness \cup ExtWires(g.quotient)
                  /\ ExtWires(g.quotient) \cap DOMAIN witness = {}
                  /\ \A t \in DOMAIN witness : witness'[t] = witness[t]
                  /\ get_extension_target(witness', g.quotient) = ExtDiv(num, dem, invZero')
                  /\ dem # ZERO => ExtMul(get_extension_target(witness', g.quotient), dem) = num
       /\ \A k \in 1 .. Len(ran') :
              run_once(witness', builder'.generators[ran'[k]], invZero') = witness'
      ]_vars

\* A generator whose denominator is another generator's quotient has run,
\* after that one, and one has run on a zero denominator.
C8_Witness ==
    /\ phase = "done"
    /\ Len(ran) = 2
    /\ builder.generators[ran[2]].denominator = builder.generators[ran[1]].quotient
    /\ builder.generators[ran[2]].numerator = InX
    /\ Value(builder.generators[ran[2]].numerator) \notin {ZERO, ONE}
    /\ Value(builder.generators[ran[2]].quotient) \notin {ZERO, ONE}

(***************************************************************************)
(* The powers iterator                                                     *)
(***************************************************************************)

\* let mut powers = builder.powers(x)
Powers(base) ==
    /\ phase = "build"
    /\ powers = <<>>
    /\ powers' = powers_new(base)
    /\ UNCHANGED <<builder, calls, phase, witness, ran, invZero>>

\* powers.next(&mut builder)
PowersNext ==
    /\ powers # <<>>
    /\ LET r == powers_next(builder, powers)
       IN  /\ Log("next", <<>>, <<powers.base, powers.current>>, r)
           /\ powers' = r.p

\* powers = powers.repeated_frobenius(k, &mut builder)
PowersRepeatedFrobenius(k) ==
    /\ powers # <<>>
    /\ LET r == powers_repeated_frobenius(builder, powers, k)
       IN  /\ Log("repeated_frobenius", <<k>>, <<powers.base, powers.current>>,
                  [b |-> r.b, t |-> r.p.current])
           /\ powers' = r.p

MaxPowersCalls == 4

NextPowers ==
    \/ Powers(InX)
    \/ Len(calls) < MaxPowersCalls /\ PowersNext
    \/ Len(calls) < MaxPowersCalls /\ \E k \in {0, 1, 2} : PowersRepeatedFrobenius(k)
    \/ calls # <<>> /\ \E xv \in Ext : Prove(InputWitness(xv, ZERO))
    \/ \E g \in 0 .. num_gates(builder) - 1, s \in {0, 1} : RunArithmeticGenerator(g, s)
    \/ \E i \in 1 .. Len(builder.frobenius) : RunFrobeniusGenerator(i)
    \/ Finish

SpecPowers == Init /\ [][NextPowers]_vars

RECURSIVE CountCalls(_, _, _)
\* The number of calls op among the first n logged calls.
CountCalls(log, n, op) ==
    IF n = 0 THEN 0
    ELSE CountCalls(log, n - 1, op) + (IF log[n].op = op THEN 1 ELSE 0)

RECURSIVE FrobeniusCount(_, _)
\* The sum of the k of the repeated_frobenius(k) among the first n logged calls.
FrobeniusCount(log, n) ==
    IF n = 0 THEN 0
    ELSE FrobeniusCount(log, n - 1)
         + (IF log[n].op = "repeated_frobenius" THEN log[n].consts[1] ELSE 0)

RECURSIVE FrobeniusTimes(_, _)
\* The single Frobenius applied k times.
FrobeniusTimes(v, k) == IF k = 0 THEN v ELSE ExtFrobenius(FrobeniusTimes(v, k - 1))

OnlyNext == \A k \in 1 .. Len(calls) : calls[k].op = "next"

\* C9: next() returns the stored current, leaves the base alone and
\* allocates exactly one gate, the first call included; with nothing but
\* next() calls, the k-th call (from 0) returned a target of value base^k and
\* the stored current has value base^(number of calls).
C9_PowersNext ==
    [][/\ IsCall("next") =>
              /\ NewCall.ret = powers.current
              /\ powers'.base = powers.base
              /\ num_gates(builder') = num_gates(builder) + 1
              /\ NewCall.after = NewCall.before + 1
       /\ (phase' = "done" /\ OnlyNext') =>
              /\ \A k \in 1 .. Len(calls') :
                     /\ ExtAssigned(witness', calls'[k].ret)
                     /\ get_extension_target(witness', calls'[k].ret) =
                            ExtExp(get_extension_target(witness', InX), k - 1)
              /\ powers'.base = InX
              /\ ExtAssigned(witness', powers'.current)
              /\ get_extension_target(witness', powers'.current) =
                     ExtExp(get_extension_target(witness', InX), Len(calls'))
              /\ Satisfied(builder', witness')
      ]_vars

C9_Witness ==
    /\ ProofSucceeds
    /\ OnlyNext
    /\ Len(calls) = 4
    /\ calls[1].after = calls[1].before + 1
    /\ Value(calls[1].ret) = ONE
    /\ Value(calls[4].ret) = ExtExp(Value(InX), 3)
    /\ Cardinality({Value(calls[k].ret) : k \in 1 .. 4}) = 4

\* C10: every next() after repeated_frobenius emits the Frobenius image,
\* the single Frobenius applied as many times as the k given so far, of the
\* power of the base the untransformed iterator emits at that position;
\* base and current are both transformed, and k = 0 changes nothing.
C10_FrobeniusOfPowers ==
    phase = "done" =>
        /\ \A j \in 1 .. Len(calls) :
               calls[j].op = "next" =>
                   /\ ExtAssigned(witness, calls[j].ret)
                   /\ Value(calls[j].ret) =
                          FrobeniusTimes(ExtExp(Value(InX), CountCalls(calls, j - 1, "next")),
                                         FrobeniusCount(calls, j - 1))
        /\ Value(powers.base) = FrobeniusTimes(Value(InX), FrobeniusCount(calls, Len(calls)))
        /\ Value(powers.current) =
               FrobeniusTimes(ExtExp(Value(InX), CountCalls(calls, Len(calls), "next")),
                              FrobeniusCount(calls, Len(calls)))
        /\ \A j \in 1 .. Len(calls) :
               (calls[j].op = "repeated_frobenius" /\ calls[j].consts[1] = 0) =>
                   /\ calls[j].ret = calls[j].args[2]
                   /\ calls[j].after = calls[j].before
        /\ Satisfied(builder, witness)

\* next, next, repeated_frobenius(1), next on a base outside the base field:
\* the third emission is the conjugate of base^2 and differs from it.
C10_Witness ==
    /\ ProofSucceeds
    /\ Len(calls) = 4
    /\ calls[1].op = "next" /\ calls[2].op = "next"
    /\ calls[3].op = "repeated_frobenius" /\ calls[3].consts[1] = 1
    /\ calls[4].op = "next"
    /\ Value(calls[4].ret) = ExtFrobenius(ExtExp(Value(InX), 2))
    /\ Value(calls[4].ret) # ExtExp(Value(InX), 2)
    /\ Value(powers.current) = ExtFrobenius(ExtExp(Value(InX), 3))

(***************************************************************************)
(* Batched sums and products: gates allocated per call                     *)
(***************************************************************************)

AddManyExtension(ts) ==
    /\ Log("add_many_extension", <<>>, ts, add_many_extension(builder, ts))
    /\ UNCHANGED powers

MulManyExtension(ts) ==
    /\ Log("mul_many_extension", <<>>, ts, mul_many_extension(builder, ts))
    /\ UNCHANGED powers

AddThreeExtension(a, b, c) ==
    /\ Log("add_three_extension", <<>>, <<a, b, c>>, add_three_extension(builder, a, b, c))
    /\ UNCHANGED powers

MulThreeExtension(a, b, c) ==
    /\ Log("mul_three_extension", <<>>, <<a, b, c>>, mul_three_extension(builder, a, b, c))
    /\ UNCHANGED powers

NextMany ==
    \/ calls = <<>> /\ \E ts \in TermLists : AddManyExtension(ts)
    \/ calls = <<>> /\ \E ts \in TermLists : MulManyExtension(ts)
    \/ calls = <<>> /\ \E a \in {InX, InY}, b \in {InX, InY}, c \in {InX, InY} : AddThreeExtension(a, b, c)
    \/ calls = <<>> /\ \E a \in {InX, InY}, b \in {InX, InY}, c \in {InX, InY} : MulThreeExtension(a, b, c)
    \/ calls # <<>> /\ \E xv \in SampleValues, yv \in SampleValues : Prove(InputWitness(xv, yv))
    \/ \E g \in 0 .. num_gates(builder) - 1, s \in {0, 1} : RunArithmeticGenerator(g, s)
    \/ Finish

SpecMany == Init /\ [][NextMany]_vars

\* C11: add_many_extension and mul_many_extension on n terms allocate
\* exactly n / 2 (integer division) gates, add_three_extension and
\* mul_three_extension exactly one.
C11_ManyAllocatesHalf ==
    \A k \in 1 .. Len(calls) :
        /\ calls[k].op \in {"add_many_extension", "mul_many_extension"} =>
               calls[k].after = calls[k].before + (Len(calls[k].args) \div 2)
        /\ calls[k].op \in {"add_three_extension", "mul_three_extension"} =>
               calls[k].after = calls[k].before + 1

(***************************************************************************)
(* Multiplication in the extension algebra of degree 2, 4 and 5            *)
(***************************************************************************)

RECURSIVE add_virtual_ext_algebra_target(_, _, _)
\* n fresh extension targets, the coordinates of one ExtensionAlgebraTarget.
add_virtual_ext_algebra_target(b, n, ts) ==
    IF Len(ts) = n THEN [b |-> b, ts |-> ts]
    ELSE LET r == add_virtual_extension_target(b)
         IN  add_virtual_ext_algebra_target(r.b, n, Append(ts, r.t))

\* The degrees of the extension algebras that are built.
AlgebraDegrees == {2, 4, 5}

\* What a coordinate may be instead of a fresh target: nothing, or a constant.
AlgebraConstants == {None, Some(zero_extension), Some(one_extension)}

\* c = mul_ext_algebra(a, b) on two algebra targets of degree n; the last
\* coordinate of a is the constant aLast and the first of b the constant
\* bFirst when given.
MulExtAlgebra(n, aLast, bFirst) ==
    /\ phase = "build"
    /\ calls = <<>>
    /\ LET va == add_virtual_ext_algebra_target(builder, n, <<>>)
           vb == add_virtual_ext_algebra_target(va.b, n, <<>>)
           a == IF aLast = None THEN va.ts ELSE [va.ts EXCEPT ![n] = aLast[1]]
           bb == IF bFirst = None THEN vb.ts ELSE [vb.ts EXCEPT ![1] = bFirst[1]]
           r == mul_ext_algebra(vb.b, a, bb)
       IN  /\ builder' = r.b
           /\ calls' = <<[op |-> "mul_ext_algebra", consts |-> <<n>>, args |-> a \o bb,
                          ret |-> r.ts, before |-> num_gates(vb.b),
                          after |-> num_gates(r.b)]>>
    /\ UNCHANGED <<powers, phase, witness, ran, invZero>>

RECURSIVE SetAll(_, _, _)
\* pw.set_extension_target(ts[k], vs[k]) for every target that is not a constant.
SetAll(w, ts, vs) ==
    IF ts = <<>> THEN w
    ELSE SetAll(IF target_as_constant_ext(ts[1]) = None
                THEN set_extension_target(w, ts[1], vs[1]) ELSE w,
                Tail(ts), Tail(vs))

\* The values sampled for the coordinates of an algebra element: a multiple
\* of each basis vector, and one element with no zero coordinate.
AlgebraScalars == {ONE, <<3, 4>>}

AlgebraDense == <<<<1, 1>>, <<3, 4>>, <<0, 2>>, <<2, 0>>, <<4, 3>>, <<2, 2>>>>

AlgebraValues(n) ==
    {[k \in 1 .. n |-> IF k = i THEN u ELSE ZERO] : i \in 1 .. n, u \in AlgebraScalars}
        \cup {SubSeq(AlgebraDense, 1, n)}

NextAlgebra ==
    \/ \E n \in AlgebraDegrees, aLast \in AlgebraConstants, bFirst \in AlgebraConstants : MulExtAlgebra(n, aLast, bFirst)
    \/ /\ calls # <<>>
       /\ \E av \in AlgebraValues(calls[1].consts[1]), bv \in AlgebraValues(calls[1].consts[1]) :
              Prove(SetAll(EmptyWitness, calls[1].args, av \o bv))
    \/ \E g \in 0 .. num_gates(builder) - 1, s \in {0, 1} : RunArithmeticGenerator(g, s)
    \/ Finish

SpecAlgebra == Init /\ [][NextAlgebra]_vars

RECURSIVE CoefficientSum(_, _, _, _)
\* The sum over i < m of a[i] * b[k - i] for i <= k and of W * a[i] * b[k + n - i]
\* for i > k: the products with i + j = k, and W times those with i + j = k + n.
CoefficientSum(av, bv, k, m) ==
    IF m = 0 THEN ZERO
    ELSE LET i == m - 1
             n == Len(av)
             term == IF i <= k THEN ExtMul(av[i + 1], bv[k - i + 1])
                     ELSE ExtMul(FromBase(W % Order), ExtMul(av[i + 1], bv[k + n - i + 1]))
         IN  ExtAdd(CoefficientSum(av, bv, k, i), term)

\* Gates of arithmetic_many_extension on m triples none of which is special.
ManyGates(m) == (m + 1) \div 2

\* C12: for the degrees 2, 4 and 5, coordinate k of mul_ext_algebra(a, b) has
\* the value sum_{i+j=k} a[i]*b[j] + W * sum_{i+j=k+n} a[i]*b[j]; with no
\* constant coordinate the n*n products take the gates of two packed-many
\* calls, on n(n+1)/2 and n(n-1)/2 triples, the odd last triple included, and
\* n coordinate sums of n products each.
C12_MulExtAlgebra ==
    \A c \in 1 .. Len(calls) :
        LET n == calls[c].consts[1]
            a == SubSeq(calls[c].args, 1, n)
            bb == SubSeq(calls[c].args, n + 1, 2 * n)
        IN  /\ Len(calls[c].ret) = n
            /\ (\A k \in 1 .. 2 * n : target_as_constant_ext(calls[c].args[k]) = None) =>
                   calls[c].after - calls[c].before =
                       ManyGates((n * (n + 1)) \div 2) + ManyGates((n * (n - 1)) \div 2)
                           + n * (n \div 2)
            /\ phase = "done" =>
                   /\ \A k \in 0 .. n - 1 :
                          /\ ExtAssigned(witness, calls[c].ret[k + 1])
                          /\ Value(calls[c].ret[k + 1]) =
                                 CoefficientSum(Values(a), Values(bb), k, n)
                   /\ Satisfied(builder, witness)

C12_Witness ==
    /\ ProofSucceeds
    /\ calls[1].consts[1] = 5
    /\ \A k \in 1 .. 10 : target_as_constant_ext(calls[1].args[k]) = None
    /\ Values(SubSeq(calls[1].args, 1, 5)) = SubSeq(AlgebraDense, 1, 5)
    /\ Values(SubSeq(calls[1].args, 6, 10)) = SubSeq(AlgebraDense, 1, 5)
    /\ Value(calls[1].ret[1]) = CoefficientSum(SubSeq(AlgebraDense, 1, 5), SubSeq(AlgebraDense, 1, 5), 0, 5)
    /\ Value(calls[1].ret[1]) # CoefficientSum(SubSeq(AlgebraDense, 1, 5), SubSeq(AlgebraDense, 1, 5), 0, 1)
    /\ calls[1].after = calls[1].before + 23

(***************************************************************************)
(* Exponentiation by a known exponent                                      *)
(***************************************************************************)

ExpU64Extension(base, exponent) ==
    /\ Log("exp_u64_extension", <<exponent>>, <<base>>,
           exp_u64_extension(builder, base, exponent))
    /\ UNCHANGED powers

MaxExponent == 12

\* The base targets: an input, and the constants zero, one and (3, 4).
ExpBases == {InX, zero_extension, one_extension, constant_extension(<<3, 4>>)}

NextExp ==
    \/ calls = <<>> /\ \E base \in ExpBases, e \in 0 .. MaxExponent : ExpU64Extension(base, e)
    \/ calls # <<>> /\ \E xv \in Ext : Prove(InputWitness(xv, ZERO))
    \/ \E g \in 0 .. num_gates(builder) - 1, s \in {0, 1} : RunArithmeticGenerator(g, s)
    \/ Finish

SpecExp == Init /\ [][NextExp]_vars

\* C13: exp_u64_extension(base, e) returns a target of value base^e, for the
\* exponents of the fast paths and of the square-and-multiply loop alike;
\* for e = 0 it is the constant ONE and for e = 1 the base target itself,
\* and neither allocates a gate.
C13_ExpIsPower ==
    \A k \in 1 .. Len(calls) :
        LET base == calls[k].args[1]
            e == calls[k].consts[1]
        IN  /\ e = 0 => calls[k].ret = one_extension /\ calls[k].after = calls[k].before
            /\ e = 1 => calls[k].ret = base /\ calls[k].after = calls[k].before
            /\ phase = "done" =>
                   /\ ExtAssigned(witness, calls[k].ret)
                   /\ Value(calls[k].ret) = ExtExp(Value(base), e)
                   /\ Satisfied(builder, witness)

\* x^11 by the loop: four bits, three multiplications and four squarings.
C13_Witness ==
    /\ ProofSucceeds
    /\ calls[1].args[1] = InX
    /\ calls[1].consts[1] = 11
    /\ calls[1].after = calls[1].before + 7
    /\ Value(calls[1].ret) = ExtExp(Value(InX), 11)
    /\ Value(calls[1].ret) \notin {ZERO, ONE, Value(InX)}

(***************************************************************************)
(* The value of a call that returns through a special case                 *)
(***************************************************************************)

AddExtension(a, b) ==
    /\ Log("add_extension", <<>>, <<a, b>>, add_extension(builder, a, b))
    /\ UNCHANGED powers

SubExtension(a, b) ==
    /\ Log("sub_extension", <<>>, <<a, b>>, sub_extension(builder, a, b))
    /\ UNCHANGED powers

\* The values of the second input: only its first wire is an operand.
BaseValues == {FromBase(c) : c \in F}

NextSpecial ==
    \/ /\ calls = <<>>
       /\ \E const_0 \in ArithConsts0, const_1 \in ArithConsts1,
             m0 \in ArithTargets, m1 \in ArithTargets, addend \in ArithAddends :
              ArithmeticExtension(const_0, const_1, m0, m1, addend)
    \/ calls = <<>> /\ \E a \in ArithTargets, b \in ArithTargets : AddExtension(a, b)
    \/ calls = <<>> /\ \E a \in ArithTargets, b \in ArithTargets : SubExtension(a, b)
    \/ calls # <<>> /\ \E xv \in Ext, yv \in BaseValues : Prove(InputWitness(xv, yv))
    \/ \E g \in 0 .. num_gates(builder) - 1, s \in {0, 1} : RunArithmeticGenerator(g, s)
    \/ Finish

SpecSpecial == Init /\ [][NextSpecial]_vars

\* The scalars and operands of the arithmetic_extension call that the logged
\* call c makes: add(a, b) = arithmetic(1, 1, one, a, b) and
\* sub(a, b) = arithmetic(1, -1, one, a, b).
ArithmeticOf(c) ==
    IF c.op = "add_extension"
    THEN [consts |-> <<F_ONE, F_ONE>>, args |-> <<one_extension>> \o c.args]
    ELSE IF c.op = "sub_extension"
    THEN [consts |-> <<F_ONE, F_NEG_ONE>>, args |-> <<one_extension>> \o c.args]
    ELSE [consts |-> c.consts, args |-> c.args]

\* const_0 * m0 * m1 + const_1 * addend on the values the witness gives.
ArithmeticValue(c) ==
    ExtAdd(ExtMul(FromBase(ArithmeticOf(c).consts[1]),
                  ExtMul(Value(ArithmeticOf(c).args[1]), Value(ArithmeticOf(c).args[2]))),
           ExtMul(FromBase(ArithmeticOf(c).consts[2]), Value(ArithmeticOf(c).args[3])))

\* C14: a call that returns without allocating a gate returns a target that
\* carries const_0 * m0 * m1 + const_1 * addend under every assignment of the
\* inputs, the value the gate path produces; add_extension(a, zero),
\* add_extension(zero, a) and sub_extension(a, zero) return a, without a gate.
C14_SpecialCaseValue ==
    \A k \in 1 .. Len(calls) :
        /\ (phase # "build" /\ calls[k].after = calls[k].before) =>
               /\ ExtAssigned(witness, calls[k].ret)
               /\ Value(calls[k].ret) = ArithmeticValue(calls[k])
        /\ phase = "done" =>
               /\ Value(calls[k].ret) = ArithmeticValue(calls[k])
               /\ Satisfied(builder, witness)
        /\ (calls[k].op \in {"add_extension", "sub_extension"}
                /\ calls[k].args[2] = zero_extension) =>
               calls[k].ret = calls[k].args[1] /\ calls[k].after = calls[k].before
        /\ (calls[k].op = "add_extension" /\ calls[k].args[1] = zero_extension) =>
               calls[k].ret = calls[k].args[2] /\ calls[k].after = calls[k].before

\* add_extension(zero, x) on a non-constant x of a value that is not zero.
C14_Witness ==
    /\ phase = "done"
    /\ calls[1].op = "add_extension"
    /\ calls[1].args = <<zero_extension, InX>>
    /\ calls[1].ret = InX
    /\ calls[1].after = calls[1].before
    /\ Value(InX) = <<3, 4>>
    /\ Value(calls[1].ret) = ArithmeticValue(calls[1])

====
